---- MODULE Spec2Model ----
(***************************************************************************)
(* A model of the nq-scripts Quran normalisation pipeline.                  *)
(*                                                                          *)
(* Spec       the entry points: tanzil_quran_parser/quran_parser.py main    *)
(*            (SQL importer), script.py main with its three commands (JSON  *)
(*            exporter), tanzil_translation_parser/translation_parser.py    *)
(*            main, accounts_bootstrap.py main and admin_user_creator.py    *)
(*            main (database programs).                                     *)
(* SpecParse  the corpus parser of lib/quran.py (Quran.surahs_from_xml,     *)
(*            Surah.ayahs_from_xml, Ayah.words_from_xml) run over bounded   *)
(*            families of input documents.                                  *)
(* SpecText   the text functions of the translation tools (comment          *)
(*            cleanser, file-name metadata, apostrophe escaping) applied    *)
(*            to bounded families of inputs.                                *)
(***************************************************************************)
EXTENDS Integers, Sequences, FiniteSets, TLC

VARIABLES
    entry,      \* which program runs: "quran_parser", "script_quran", ...
    argc,       \* len(args) of the invocation
    file,       \* the bytes of the source file on disk
    pc,         \* position of the run inside main
    source,     \* quran_source_as_string / content: the bytes main works on
    valid,      \* "True" or "False" as validate_tanzil_quran returned, "unset" before
    parsed,     \* TRUE once ET.fromstring has returned a tree
    output,     \* TRUE once script.py has written its JSON file
    db,         \* the database calls issued so far, in order
    root,       \* SpecParse: the input document (list of sura elements)
    quran,      \* SpecParse: Quran.surahs, the surahs appended so far
    cur,        \* SpecParse: the Surah under construction and its local ayahs
    si,         \* SpecParse: position of the sura iteration
    ai,         \* SpecParse: position of the aya iteration in the sura
    ppc,        \* SpecParse: position of the parser
    words_table, \* SpecParse: the rows of parse_quran_words_table(root)
    ayahs_table, \* SpecParse: the rows of parse_quran_ayahs_table(root)
    surahs_table, \* SpecParse: the rows of parse_quran_suarhs_table(root, 2)
    json,       \* SpecParse: what json.dumps wrote for the parsed Quran
    fn,         \* SpecText: the function under application
    arg,        \* SpecText: its argument
    ret,        \* SpecText: what it returned
    fpc,        \* SpecText: "call" before the application, "return" after
    opt,        \* the optional trailing arguments of a script.py run
    pretty,     \* "True" or "False" as script.py main computed it, "unset" before
    dir,        \* the files of the translations directory, as os.scandir lists them
    fidx,       \* the number of files the loop is done with
    events,     \* (file, what happened to it): "parsed", "converted", "imported"
    tables,     \* the database as the open session sees it
    committed,  \* the database as committed
    last        \* the last create_user call of the run

vars == <<entry, argc, file, pc, source, valid, parsed, output, db,
          root, quran, cur, si, ai, ppc, words_table, ayahs_table, surahs_table, json,
          fn, arg, ret, fpc,
          opt, pretty, dir, fidx, events, tables, committed, last>>

mainVars == <<entry, argc, file, pc, source, valid, parsed, output, db>>
parseVars == <<root, quran, cur, si, ai, ppc, words_table, ayahs_table, surahs_table, json>>
textVars == <<fn, arg, ret, fpc>>
toolVars == <<opt, pretty, dir, fidx, events, tables, committed, last>>
quranVars == <<file, source, valid, parsed, output, db>>
outsideMain == <<parseVars, textVars, toolVars>>
outsideParse == <<mainVars, textVars, toolVars>>
outsideText == <<mainVars, parseVars, toolVars>>
outsideTools == <<quranVars, parseVars, textVars>>

None == "None"

\* ------------------------------------------------------------------ bounds
MaxFileLen == 3       \* longest source file, in bytes
MaxTextLen == 5       \* longest verse text of the text family, in characters
MaxSurahs == 2        \* most sura elements of a structured document
MaxAyahs == 2         \* most aya elements of one sura of a structured document
MaxSurahIndex == 115  \* largest declared sura index of the index family
MaxSajdahSurahs == 7  \* most sura elements of a document of the sajdah family
MaxAyahIndex == 207   \* largest declared aya index of the index family
MaxPieces == 5        \* most pieces of an input of the comment cleanser
MaxPathLen == 7       \* longest file path, in path characters
MaxQuotePieces == 4   \* most pieces of a verse text of the escaping family
MaxOptArgs == 2       \* most optional trailing arguments of a script.py run
MaxDirFiles == 2      \* most files of a translations directory

\* ------------------------------------------------------------- byte level
\* The modelled bytes are ASCII: line feed, carriage return, '<' and a
\* content byte.  For ASCII the locale decoding of open(path, "r") and the
\* later .encode('utf-8') map a byte to the same code and back, so what the
\* text-mode read changes is the line endings.
LF == "LF"
CR == "CR"
LT == "<"
Bytes == {LF, CR, LT, "x"}

\* the sequences over S of length at most n
SeqsUpTo(S, n) == UNION {[1..k -> S] : k \in 0..n}


\* file.read() on a file opened with mode "r" (newline=None): universal
\* newlines, "\r\n" and a lone "\r" are both returned as "\n".
RECURSIVE UniversalNewlines(_)
UniversalNewlines(s) ==
    IF s = <<>> THEN <<>>
    ELSE IF Head(s) = CR
         THEN IF Len(s) >= 2 /\ s[2] = LF
              THEN <<LF>> \o UniversalNewlines(SubSeq(s, 3, Len(s)))
              ELSE <<LF>> \o UniversalNewlines(Tail(s))
         ELSE <<Head(s)>> \o UniversalNewlines(Tail(s))

\* open(quran_xml_path, "r") ... .read().encode('utf-8')
TextModeRead(f) == UniversalNewlines(f)

\* hashlib.sha256(...).hexdigest(), idealised as collision free: an injective
\* numbering of byte sequences (base 5, digits 1..4).
ByteCode(b) == CASE b = LF -> 1 [] b = CR -> 2 [] b = LT -> 3 [] OTHER -> 4

RECURSIVE hexdigest(_)
hexdigest(s) ==
    IF s = <<>> THEN 0 ELSE 5 * hexdigest(SubSeq(s, 1, Len(s) - 1)) + ByteCode(s[Len(s)])

\* The approved Tanzil release: a document that starts with markup and uses
\* line-feed line endings.
ReferenceSource == <<LT, "x", LF>>

TANZIL_QURAN_SOURCE_HASH == hexdigest(ReferenceSource)

validate_tanzil_quran(src) == hexdigest(src) = TANZIL_QURAN_SOURCE_HASH

\* ET.fromstring: returns a tree for a well-formed document and raises
\* ParseError otherwise.  Well-formedness is abstracted to "the first byte
\* that is not a line ending opens markup".
RECURSIVE WellFormed(_)
WellFormed(s) ==
    IF s = <<>> THEN FALSE
    ELSE IF Head(s) \in {LF, CR} THEN WellFormed(Tail(s))
    ELSE Head(s) = LT

\* ------------------------------------------- quran_parser.py main (271-339)
\* if len(args) < 7: exit_usage()
MainArgsOk(n) == ~(n < 7)

\* faulty variant: the mismatch is reported but the run goes on
NoExitOnMismatch(ok) == "fromstring"
\* if validate_tanzil_quran(...) == False: exit_err(...)   (exit_err exits)
AfterValidate(ok) == IF ok = FALSE THEN "exit_err" ELSE "fromstring"

MainCheckArgs ==
    /\ entry = "quran_parser" /\ pc = "start"
    /\ pc' = IF MainArgsOk(argc) THEN "read" ELSE "exit_usage"
    /\ UNCHANGED <<entry, argc, file, source, valid, parsed, output, db>>
    /\ UNCHANGED outsideMain

MainRead ==
    /\ entry = "quran_parser" /\ pc = "read"
    /\ source' = TextModeRead(file)
    /\ pc' = "validate"
    /\ UNCHANGED <<entry, argc, file, valid, parsed, output, db>>
    /\ UNCHANGED outsideMain

MainValidate ==
    /\ entry = "quran_parser" /\ pc = "validate"
    /\ valid' = (IF validate_tanzil_quran(source) THEN "True" ELSE "False")
    /\ pc' = AfterValidate(validate_tanzil_quran(source))
    /\ UNCHANGED <<entry, argc, file, source, parsed, output, db>>
    /\ UNCHANGED outsideMain

MainFromString ==
    /\ entry = "quran_parser" /\ pc = "fromstring"
    /\ IF WellFormed(source)
       THEN parsed' = TRUE /\ pc' = "tables"
       ELSE parsed' = parsed /\ pc' = "raised"
    /\ UNCHANGED <<entry, argc, file, source, valid, output, db>>
    /\ UNCHANGED outsideMain

\* parse_quran_suarhs_table, parse_quran_words_table, parse_quran_ayahs_table
\* and the assembly of final_sql_code: no database call.
MainTables ==
    /\ entry = "quran_parser" /\ pc = "tables"
    /\ pc' = "connect"
    /\ UNCHANGED <<entry, argc, file, source, valid, parsed, output, db>>
    /\ UNCHANGED outsideMain

\* psycopg2.connect; the server may refuse.
MainConnect ==
    /\ entry = "quran_parser" /\ pc = "connect"
    /\ db' = Append(db, "connect")
    /\ pc' \in {"execute_hafs", "raised"}
    /\ UNCHANGED <<entry, argc, file, source, valid, parsed, output>>
    /\ UNCHANGED outsideMain

MainExecuteHafs ==
    /\ entry = "quran_parser" /\ pc = "execute_hafs"
    /\ db' = Append(db, "insert_mushaf")
    /\ pc' \in {"execute_final", "raised"}
    /\ UNCHANGED <<entry, argc, file, source, valid, parsed, output>>
    /\ UNCHANGED outsideMain

\* faulty variant: the words table ahead of the ayahs table
final_sql_code_words_first == <<"insert_surahs", "insert_words", "insert_ayahs">>
\* final_sql_code: the surahs table, then the ayahs table, then the words table
final_sql_code == <<"insert_surahs", "insert_ayahs", "insert_words">>

\* cur.execute(final_sql_code)
MainExecuteFinal ==
    /\ entry = "quran_parser" /\ pc = "execute_final"
    /\ db' = db \o final_sql_code
    /\ pc' \in {"commit", "raised"}
    /\ UNCHANGED <<entry, argc, file, source, valid, parsed, output>>
    /\ UNCHANGED outsideMain

MainCommit ==
    /\ entry = "quran_parser" /\ pc = "commit"
    /\ db' = Append(db, "commit")
    /\ pc' = "close"
    /\ UNCHANGED <<entry, argc, file, source, valid, parsed, output>>
    /\ UNCHANGED outsideMain

MainClose ==
    /\ entry = "quran_parser" /\ pc = "close"
    /\ db' = Append(db, "close")
    /\ pc' = "done"
    /\ UNCHANGED <<entry, argc, file, source, valid, parsed, output>>
    /\ UNCHANGED outsideMain

\* ------------------------- script.py main, command "quran" (19-28, 49-56)
ScriptRead ==
    /\ entry = "script_quran" /\ pc = "script_read"
    /\ source' = TextModeRead(file)
    /\ pc' = "fromstring"
    /\ UNCHANGED <<entry, argc, file, valid, parsed, output, db>>
    /\ UNCHANGED outsideMain

ScriptFromString ==
    /\ entry = "script_quran" /\ pc = "fromstring"
    /\ IF WellFormed(source)
       THEN parsed' = TRUE /\ pc' = "dumps"
       ELSE parsed' = parsed /\ pc' = "raised"
    /\ UNCHANGED <<entry, argc, file, source, valid, output, db>>
    /\ UNCHANGED outsideMain

\* Quran(Mushaf(...)).surahs_from_xml(root); json.dumps(...)
ScriptDumps ==
    /\ entry = "script_quran" /\ pc = "dumps"
    /\ pc' = "write"
    /\ UNCHANGED <<entry, argc, file, source, valid, parsed, output, db>>
    /\ UNCHANGED outsideMain

\* with open(f"{mushaf_name}.json", "w") as file: file.write(json)
ScriptWrite ==
    /\ entry = "script_quran" /\ pc = "write"
    /\ output' = TRUE
    /\ pc' = "done"
    /\ UNCHANGED <<entry, argc, file, source, valid, parsed, db>>
    /\ UNCHANGED outsideMain


\* =================================================== lib/quran.py, the parser
\* Characters of a verse text: the space, the prostration glyph U+06E9 and
\* two letters.  A text is a sequence of characters.
SP == " "
SAJDAH_GLYPH == "U+06E9"
Chars == {SP, SAJDAH_GLYPH, "a", "b"}

\* The fixed basmala string (four words in the source); here a short text of
\* two words over the modelled characters.
BISMILLAH == <<"b", SP, "a">>

sajdahs ==
    [k \in {<<32, 15>>, <<41, 37>>, <<53, 62>>, <<96, 19>>} |-> "vajib"] @@
    [k \in {<<7, 206>>, <<13, 15>>, <<16, 50>>, <<17, 109>>, <<19, 58>>,
            <<22, 18>>, <<25, 60>>, <<27, 26>>, <<38, 24>>, <<84, 21>>} |-> "mustahab"]

Madani == {2, 3, 4, 5, 8, 9, 13, 22, 24, 33, 47, 48, 49, 55, 57, 58, 59, 60,
           61, 62, 63, 64, 65, 66, 76, 98, 99, 110}

periods == [n \in 1..114 |-> IF n \in Madani THEN "madani" ELSE "makki"]

\* faulty variant: a table that misses its last key
periods_get_short(number) ==
    IF number \in (DOMAIN periods) \ {114} THEN periods[number] ELSE None
\* periods.get(number)
periods_get(number) ==
    IF number \in DOMAIN periods THEN periods[number] ELSE None

\* faulty variant: the key built as (ayah_number, surah_number)
sajdahs_get_swapped(surah_number, ayah_number) ==
    IF <<ayah_number, surah_number>> \in DOMAIN sajdahs
    THEN sajdahs[<<ayah_number, surah_number>>] ELSE None
\* sajdahs.get((surah_number, ayah_number), None)
sajdahs_get(surah_number, ayah_number) ==
    IF <<surah_number, ayah_number>> \in DOMAIN sajdahs
    THEN sajdahs[<<surah_number, ayah_number>>] ELSE None

\* int(s) of an attribute holding decimal digits
RECURSIVE int(_)
int(digits) ==
    IF digits = <<>> THEN 0
    ELSE 10 * int(SubSeq(digits, 1, Len(digits) - 1)) + digits[Len(digits)]

\* the decimal digits of n, as the source file writes an index
RECURSIVE Decimal(_)
Decimal(n) == IF n < 10 THEN <<n>> ELSE Append(Decimal(n \div 10), n % 10)

\* faulty variant: str.replace(SAJDAH_GLYPH, '', 1), the first occurrence only
RECURSIVE replace_first_only(_)
replace_first_only(text) ==
    IF text = <<>> THEN <<>>
    ELSE IF Head(text) = SAJDAH_GLYPH THEN Tail(text)
    ELSE <<Head(text)>> \o replace_first_only(Tail(text))
\* str.replace(SAJDAH_GLYPH, ''): every occurrence removed
RECURSIVE replace_sajdah(_)
replace_sajdah(text) ==
    IF text = <<>> THEN <<>>
    ELSE IF Head(text) = SAJDAH_GLYPH THEN replace_sajdah(Tail(text))
    ELSE <<Head(text)>> \o replace_sajdah(Tail(text))

\* faulty variant: str.split(), which drops empty tokens
RECURSIVE split_dropping_empty(_)
split_dropping_empty(text) ==
    IF text = <<>> THEN <<>>
    ELSE IF Head(text) = SP THEN split_dropping_empty(Tail(text))
    ELSE LET n == IF \E j \in 1..Len(text) : text[j] = SP
                  THEN CHOOSE j \in 1..Len(text) :
                           text[j] = SP /\ \A k \in 1..(j - 1) : text[k] /= SP
                  ELSE Len(text) + 1
         IN  <<SubSeq(text, 1, n - 1)>> \o split_dropping_empty(SubSeq(text, n, Len(text)))
\* str.split(" "): one token more than there are spaces, empty tokens kept
RECURSIVE split(_)
split(text) ==
    IF \A i \in 1..Len(text) : text[i] /= SP THEN <<text>>
    ELSE LET i == CHOOSE j \in 1..Len(text) :
                      text[j] = SP /\ \A k \in 1..(j - 1) : text[k] /= SP
         IN  <<SubSeq(text, 1, i - 1)>> \o split(SubSeq(text, i + 1, Len(text)))

Word(text) == [text |-> text]

\* Ayah.__init__
Ayah(surah_number, ayah_number, is_bismillah, bismillah_text) ==
    [number |-> ayah_number,
     sajdah |-> sajdahs_get(surah_number, ayah_number),
     is_bismillah |-> is_bismillah,
     bismillah_text |-> bismillah_text,
     words |-> <<>>]

\* Ayah.words_from_xml
words_from_xml(self, ayah) ==
    LET ayahtext_without_sajdah == replace_sajdah(ayah.text)
        words == split(ayahtext_without_sajdah)
    IN  [self EXCEPT !.words = [i \in 1..Len(words) |-> Word(words[i])]]

\* Surah.__init__
Surah(name, number) ==
    [name |-> name, period |-> periods_get(number), number |-> number, ayahs |-> <<>>]

\* faulty variant: a prefix test in place of equality
IsPrefix(p, t) == Len(p) <= Len(t) /\ SubSeq(t, 1, Len(p)) = p
text_starts_with_bismillah(text) == IsPrefix(BISMILLAH, text)
\* is_bismillah = ayah.attrib['text'] == BISMILLAH
text_is_bismillah(text) == text = BISMILLAH

\* the body of the loop of Surah.ayahs_from_xml for one aya element
ayah_from_xml(self, ayah) ==
    words_from_xml(Ayah(self.number, int(ayah.index), text_is_bismillah(ayah.text),
                        ayah.bismillah),
                   ayah)

\* ------------------------------------------------------- input documents
\* An aya element is [index, text, bismillah], a sura element is
\* [index, name, ayas], a document is the list of the root's sura elements.
\* index attributes are strings of decimal digits; the bismillah attribute is
\* absent (None) or holds a text the code passes on without reading it.
BismillahAttr == "bismillah attribute"
AyaElement(index, text, bismillah) ==
    [index |-> index, text |-> text, bismillah |-> bismillah]

SuraElement(index, name, ayas) == [index |-> index, name |-> name, ayas |-> ayas]

StructTexts == {BISMILLAH, <<"a">>}

\* The aya lists of a structured sura: indices 1..k, every text either the
\* basmala or a plain text, the bismillah attribute only ever on aya 1.
StructAyas ==
    UNION {
        { [j \in 1..k |-> AyaElement(Decimal(j), t[j], IF j = 1 THEN b ELSE None)] :
            t \in [1..k -> StructTexts], b \in {None, BismillahAttr} }
        : k \in 0..MaxAyahs }

\* A structured document: n suras with declared indices 1..n, sura i with
\* the aya list ayas[i].
StructDoc(n, ayas) == [i \in 1..n |-> SuraElement(Decimal(i), "sura", ayas[i])]

\* A document of the index family: one sura with one aya, any declared
\* indices.
IndexDoc(s, a) ==
    <<SuraElement(Decimal(s), "sura", <<AyaElement(Decimal(a), <<"a">>, None)>>)>>

\* A document of the text family: one sura with one aya, any verse text.
TextDoc(text) ==
    <<SuraElement(Decimal(1), "sura", <<AyaElement(Decimal(1), text, None)>>)>>

\* A document of the sajdah family: n suras with declared indices 1..n, each
\* with an aya 1, sura s with a second aya of index a.
SajdahDoc(n, s, a) ==
    [i \in 1..n |->
        SuraElement(Decimal(i), "sura",
                    IF i = s
                    THEN <<AyaElement(Decimal(1), <<"a">>, None),
                           AyaElement(Decimal(a), <<"a">>, None)>>
                    ELSE <<AyaElement(Decimal(1), <<"a">>, None)>>)]

\* the second aya of a sajdah document: 2, or an aya number of the table
SajdahAyahs == {2} \cup {k[2] : k \in DOMAIN sajdahs}

\* root is one of the input documents
IsInputDocument(doc) ==
    \/ \E n \in 1..MaxSajdahSurahs : \E s \in 1..n : \E a \in SajdahAyahs :
          doc = SajdahDoc(n, s, a)
    \/ \E n \in 1..MaxSurahs : \E ayas \in [1..n -> StructAyas] : doc = StructDoc(n, ayas)
    \/ \E s \in 0..MaxSurahIndex : \E a \in 0..MaxAyahIndex : doc = IndexDoc(s, a)
    \/ \E text \in SeqsUpTo(Chars, MaxTextLen) : doc = TextDoc(text)

\* what a call gave: the returned value, or the exception it raised
Returned(value) == [raised |-> None, value |-> value]
Raised(exception) == [raised |-> exception, value |-> <<>>]

\* ------------------------- quran_parser.py parse_quran_words_table (220-242)
\* rows (creator_user_id, ayah_id, word) of the aya elements from
\* ayah_number on, in document order
RECURSIVE words_rows(_, _)
words_rows(ayas, ayah_number) ==
    IF ayas = <<>> THEN <<>>
    ELSE LET words == split(replace_sajdah(Head(ayas).text))
         IN  [i \in 1..Len(words) |-> <<1, ayah_number, words[i]>>]
             \o words_rows(Tail(ayas), ayah_number + 1)

\* root.iter('aya'): every aya element, in document order
RECURSIVE iter_aya(_)
iter_aya(doc) == IF doc = <<>> THEN <<>> ELSE Head(doc).ayas \o iter_aya(Tail(doc))

\* faulty variant: ayah_number = 0 before the loop
parse_quran_words_table_from_zero(doc) == words_rows(iter_aya(doc), 0)
parse_quran_words_table(doc) == words_rows(iter_aya(doc), 1)

\* ------------------------- quran_parser.py parse_quran_ayahs_table (246-268)
\* rows (creator_user_id, surah_id, ayah_number, sajdah) of the aya elements,
\* in document order, surah_number being the counter before the element.
\* aya_index is the attribute's string: the row carries it as written, the
\* lookup uses int(aya_index), the counter advances on the string "1".  The
\* lookup comes before the counter advances.  NULL is None.
RECURSIVE ayahs_rows(_, _)
ayahs_rows(ayas, surah_number) ==
    IF ayas = <<>> THEN <<>>
    ELSE LET aya_index == Head(ayas).index
             sajdah_status == sajdahs_get(surah_number, int(aya_index))
             advanced == IF aya_index = <<1>> THEN surah_number + 1 ELSE surah_number
         IN  <<<<1, advanced, aya_index, sajdah_status>>>>
             \o ayahs_rows(Tail(ayas), advanced)

\* faulty variant: surah_number = 1 before the loop
parse_quran_ayahs_table_from_one(doc) == ayahs_rows(iter_aya(doc), 1)
parse_quran_ayahs_table(doc) == ayahs_rows(iter_aya(doc), 0)

\* ------------------------ quran_parser.py parse_quran_suarhs_table (189-214)
\* the row of the surah_num-th child of root: first_ayah is
\* root[surah_num - 1][0], the period comes from the position
surah_row(doc, surah_num, mushaf_id) ==
    LET surah_name == doc[surah_num].name
        first_ayah == doc[surah_num].ayas[1]
        period == periods_get(surah_num)
    IN  IF first_ayah.text = BISMILLAH
        THEN [creator_user_id |-> 1, name |-> surah_name, period |-> period,
              number |-> surah_num, bismillah_status |-> "true",
              bismillah_as_first_ayah |-> "true", mushaf_id |-> mushaf_id]
        ELSE [creator_user_id |-> 1, name |-> surah_name, period |-> period,
              number |-> surah_num,
              bismillah_status |-> IF first_ayah.bismillah /= None THEN "true" ELSE "false",
              bismillah_as_first_ayah |-> "false", mushaf_id |-> mushaf_id]

\* one row per child of root; root[surah_num - 1][0] of a child without
\* children raises IndexError
parse_quran_suarhs_table(doc, mushaf_id) ==
    IF \E surah_num \in 1..Len(doc) : doc[surah_num].ayas = <<>>
    THEN Raised("IndexError")
    ELSE Returned([surah_num \in 1..Len(doc) |-> surah_row(doc, surah_num, mushaf_id)])

\* -------------------------- script.py quran_xml_into_json: json.dumps (28)
\* lib/quran.py Mushaf.__init__ (135-139)
Mushaf(short_name, name, src) == [name |-> name, short_name |-> short_name, source |-> src]

\* vars(obj): the attributes of an object in the order __init__ first
\* assigned them (a later assignment to the same attribute keeps its place)
Quran_vars == <<"mushaf", "surahs">>
Mushaf_vars == <<"name", "short_name", "source">>
Surah_vars == <<"name", "period", "number", "ayahs">>
Ayah_vars == <<"number", "sajdah", "is_bismillah", "bismillah_text", "words">>
Word_vars == <<"text">>

\* a JSON object: its members (key, value) in the order they are written
json_object(obj, keys) == [k \in 1..Len(keys) |-> <<keys[k], obj[keys[k]]>>]

\* None is written as null
json_null(v) == IF v = None THEN "null" ELSE v

json_word(word) == json_object(word, Word_vars)

json_ayah(ayah) ==
    json_object([ayah EXCEPT !.sajdah = json_null(@),
                             !.bismillah_text = json_null(@),
                             !.words = [i \in 1..Len(@) |-> json_word(@[i])]],
                Ayah_vars)

json_surah(surah) ==
    json_object([surah EXCEPT !.period = json_null(@),
                              !.ayahs = [j \in 1..Len(@) |-> json_ayah(@[j])]],
                Surah_vars)

\* json.dumps(quran, default=vars, ...): every object is written as
\* vars(object)
json_dumps(q) ==
    json_object([mushaf |-> json_object(q.mushaf, Mushaf_vars),
                 surahs |-> [i \in 1..Len(q.surahs) |-> json_surah(q.surahs[i])]],
                Quran_vars)

\* Quran(Mushaf(mushaf_name, mushaf_full_name, mushaf_source)) with the
\* surahs parsed from the document, serialised
JsonDumps ==
    /\ ppc = "done"
    /\ json' = json_dumps([mushaf |-> Mushaf("hafs", "Hafs an Asem", "tanzil"),
                           surahs |-> quran])
    /\ ppc' = "dumped"
    /\ UNCHANGED <<root, quran, cur, si, ai, words_table, ayahs_table, surahs_table>>
    /\ UNCHANGED outsideParse

\* --------------------------------------- Quran.surahs_from_xml (204-208)
\* for surah in root.iter('sura'): Surah(name, int(index)) ...
SurahsFromXmlNext ==
    /\ ppc = "surahs" /\ si < Len(root)
    /\ cur' = [surah |-> Surah(root[si + 1].name, int(root[si + 1].index)),
               ayahs |-> <<>>]
    /\ ai' = 0
    /\ ppc' = "ayahs"
    /\ UNCHANGED <<root, quran, si, words_table, ayahs_table, surahs_table, json>>
    /\ UNCHANGED outsideParse

\* Surah.ayahs_from_xml (150-166): one turn of the loop
AyahsFromXmlNext ==
    /\ ppc = "ayahs" /\ ai < Len(root[si + 1].ayas)
    /\ cur' = [cur EXCEPT !.ayahs =
                  Append(@, ayah_from_xml(cur.surah, root[si + 1].ayas[ai + 1]))]
    /\ ai' = ai + 1
    /\ UNCHANGED <<root, quran, si, ppc, words_table, ayahs_table, surahs_table, json>>
    /\ UNCHANGED outsideParse

\* self.ayahs = ayahs; return self; self.surahs.append(surah)
AyahsFromXmlReturn ==
    /\ ppc = "ayahs" /\ ai = Len(root[si + 1].ayas)
    /\ quran' = Append(quran, [cur.surah EXCEPT !.ayahs = cur.ayahs])
    /\ cur' = None
    /\ si' = si + 1
    /\ ppc' = "surahs"
    /\ UNCHANGED <<root, ai, words_table, ayahs_table, surahs_table, json>>
    /\ UNCHANGED outsideParse

SurahsFromXmlReturn ==
    /\ ppc = "surahs" /\ si = Len(root)
    /\ ppc' = "done"
    /\ UNCHANGED <<root, quran, cur, si, ai, words_table, ayahs_table, surahs_table, json>>
    /\ UNCHANGED outsideParse

\* the row-tuple path over the same document, the three tables in the
\* order of quran_parser.py main (305, 308, 311)
\* quran_surahs_table = parse_quran_suarhs_table(root, 2)
ParseQuranSurahsTable ==
    /\ ppc = "done"
    /\ LET result == parse_quran_suarhs_table(root, 2)
       IN  IF result.raised = None
           THEN surahs_table' = result.value /\ ppc' = "surah_rows"
           ELSE surahs_table' = surahs_table /\ ppc' = "raised"
    /\ UNCHANGED <<root, quran, cur, si, ai, words_table, ayahs_table, json>>
    /\ UNCHANGED outsideParse

\* quran_words_table = parse_quran_words_table(root)
ParseQuranWordsTable ==
    /\ ppc = "surah_rows"
    /\ words_table' = parse_quran_words_table(root)
    /\ ppc' = "rows"
    /\ UNCHANGED <<root, quran, cur, si, ai, ayahs_table, surahs_table, json>>
    /\ UNCHANGED outsideParse

\* quran_ayahs_table = parse_quran_ayahs_table(root)
ParseQuranAyahsTable ==
    /\ ppc = "rows"
    /\ ayahs_table' = parse_quran_ayahs_table(root)
    /\ ppc' = "ayah_rows"
    /\ UNCHANGED <<root, quran, cur, si, ai, words_table, surahs_table, json>>
    /\ UNCHANGED outsideParse

\* ================================================= translation text tools

\* --------------------------- lib/utils.py remove_comments_from_xml (6-9)
\* source.decode('utf-8'): the modelled bytes are ASCII codes, each decoded
\* to the character of that code.
chr(b) ==
    CASE b = 60 -> "<" [] b = 33 -> "!" [] b = 45 -> "-" [] b = 62 -> ">"
      [] b = 10 -> LF [] OTHER -> "x"

decode(bytes) == [i \in 1..Len(bytes) |-> chr(bytes[i])]

\* text.encode('utf-8'): each modelled character encoded to its ASCII code
ord(c) ==
    CASE c = "<" -> 60 [] c = "!" -> 33 [] c = "-" -> 45 [] c = ">" -> 62
      [] c = LF -> 10 [] OTHER -> 120

encode(text) == [i \in 1..Len(text) |-> ord(text[i])]

COMMENT_OPEN == <<"<", "!", "-", "-">>
COMMENT_CLOSE == <<"-", "-", ">">>

\* pat occurs in text at position i
HasAt(text, i, pat) ==
    /\ i >= 1 /\ i + Len(pat) - 1 <= Len(text)
    /\ SubSeq(text, i, i + Len(pat) - 1) = pat

Min(S) == CHOOSE x \in S : \A y \in S : x <= y
Max(S) == CHOOSE x \in S : \A y \in S : x >= y

\* the positions after the opener at i where "-->" can match
closers(text, i) == {j \in (i + 4)..Len(text) : HasAt(text, j, COMMENT_CLOSE)}

\* faulty variant: ".*" instead of ".*?", the match runs to the last "-->"
match_end_greedy(text, i) ==
    IF ~HasAt(text, i, COMMENT_OPEN) \/ closers(text, i) = {} THEN 0
    ELSE Max(closers(text, i)) + 2
\* A match of "(<!--.*?-->)" with re.DOTALL tried at position i: "<!--",
\* then the shortest run of any characters, line feeds included, then
\* "-->".  The position of the last matched character, 0 when no match.
match_end(text, i) ==
    IF ~HasAt(text, i, COMMENT_OPEN) \/ closers(text, i) = {} THEN 0
    ELSE Min(closers(text, i)) + 2

\* re.sub(pattern, "", text): scan from the left, drop every match, resume
\* after it, copy every other character.
RECURSIVE re_sub(_, _)
re_sub(text, i) ==
    IF i > Len(text) THEN <<>>
    ELSE IF match_end(text, i) = 0
         THEN <<text[i]>> \o re_sub(text, i + 1)
         ELSE re_sub(text, match_end(text, i) + 1)

remove_comments_from_xml(src) == re_sub(decode(src), 1)

\* The inputs of the cleanser: byte strings put together from at most
\* MaxPieces pieces: "<!--", "-->", "x", a line feed, "<!", "--".
CommentPieces ==
    {<<60, 33, 45, 45>>, <<45, 45, 62>>, <<120>>, <<10>>, <<60, 33>>, <<45, 45>>}

RECURSIVE Flatten(_)
Flatten(ss) == IF ss = <<>> THEN <<>> ELSE Head(ss) \o Flatten(Tail(ss))

IsCommentInput(x) ==
    \E ps \in SeqsUpTo(CommentPieces, MaxPieces) : x = Flatten(ps)

RemoveCommentsFromXml ==
    /\ fn = "remove_comments_from_xml" /\ fpc = "call"
    /\ ret' = remove_comments_from_xml(arg)
    /\ fpc' = "return"
    /\ UNCHANGED <<fn, arg>>
    /\ UNCHANGED outsideText

\* ------------------------- translation_metadata (lib/translation.py 28-35,
\* parser/lib/translation.py 44-51, translation_parser.py 70-77)
\* A path is a sequence of path characters; "en" and "mahdi" stand for one
\* name character each.
PathChars == {".", "/", "en", "mahdi"}

\* os.path.split(file_path)[1]: what follows the last "/"
os_path_split_tail(path) ==
    LET slashes == {i \in 1..Len(path) : path[i] = "/"}
    IN  IF slashes = {} THEN path ELSE SubSeq(path, Max(slashes) + 1, Len(path))

\* str.split(sep) with a one-character separator: empty parts are kept
RECURSIVE str_split(_, _)
str_split(text, sep) ==
    LET seps == {i \in 1..Len(text) : text[i] = sep}
    IN  IF seps = {} THEN <<text>>
        ELSE <<SubSeq(text, 1, Min(seps) - 1)>>
                 \o str_split(SubSeq(text, Min(seps) + 1, Len(text)), sep)

\* lib/translation.py and parser/lib/translation.py:
\* return (splited_file_name[0], splited_file_name[1])
translation_metadata(file_path) ==
    LET splited_file_name == str_split(os_path_split_tail(file_path), ".")
    IN  IF Len(splited_file_name) < 2 THEN Raised("IndexError")
        ELSE Returned(<<splited_file_name[1], splited_file_name[2]>>)

\* translation_parser.py: return {"language": [0], "author": [1], "type": [2]}
tp_translation_metadata(file_path) ==
    LET splited_file_name == str_split(os_path_split_tail(file_path), ".")
    IN  IF Len(splited_file_name) < 3 THEN Raised("IndexError")
        ELSE Returned([language |-> splited_file_name[1],
                       author |-> splited_file_name[2],
                       type |-> splited_file_name[3]])

TranslationMetadata ==
    /\ fn = "translation_metadata" /\ fpc = "call"
    /\ ret' = translation_metadata(arg)
    /\ fpc' = "return"
    /\ UNCHANGED <<fn, arg>>
    /\ UNCHANGED outsideText

TpTranslationMetadata ==
    /\ fn = "tp_translation_metadata" /\ fpc = "call"
    /\ ret' = tp_translation_metadata(arg)
    /\ fpc' = "return"
    /\ UNCHANGED <<fn, arg>>
    /\ UNCHANGED outsideText

\* ------------------------------------------------- apostrophe escaping
APOSTROPHE == "'"
QUOT == <<"&", "q", "u", "o", "t", ";">>

\* faulty variant: str.replace(old, new, 1), only the first occurrence
str_replace_once(text, old, new) ==
    LET olds == {i \in 1..Len(text) : text[i] = old}
    IN  IF olds = {} THEN text
        ELSE SubSeq(text, 1, Min(olds) - 1) \o new
                 \o SubSeq(text, Min(olds) + 1, Len(text))
\* str.replace(old, new) with a one-character old: every occurrence, from
\* the left
RECURSIVE str_replace(_, _, _)
str_replace(text, old, new) ==
    IF text = <<>> THEN <<>>
    ELSE (IF Head(text) = old THEN new ELSE <<Head(text)>>)
             \o str_replace(Tail(text), old, new)

\* parser/lib/translation.py AyahTranslation.__init__ (4-6)
AyahTranslation(text, ayah_number) == [number |-> ayah_number, text |-> text]

\* parser/lib/translation.py TranslationSurah.ayah_translations_from_xml
\* (16-23): the ayah translations of the aya elements of one sura
ayah_translations_from_xml(ayas) ==
    [j \in 1..Len(ayas) |->
        AyahTranslation(str_replace(ayas[j].text, APOSTROPHE, QUOT), int(ayas[j].index))]

\* translation_parser.py create_translation_table (38-57): the rows
\* (creator_user_id, text, translation_id, ayah_id), ayah_num counted from 1
\* over root.iter('aya')
create_translation_table(doc, translation_id, creator_user_id) ==
    LET ayas == iter_aya(doc)
    IN  [ayah_num \in 1..Len(ayas) |->
            <<creator_user_id, str_replace(ayas[ayah_num].text, APOSTROPHE, QUOT),
              translation_id, ayah_num>>]

\* The verse texts of the escaping family: put together from at most
\* MaxQuotePieces pieces: an apostrophe, a letter, a literal "&quot;".
QuotePieces == {<<APOSTROPHE>>, <<"a">>, QUOT}

IsQuoteInput(x) == \E ps \in SeqsUpTo(QuotePieces, MaxQuotePieces) : x = Flatten(ps)

AyahTranslationsFromXml ==
    /\ fn = "ayah_translations_from_xml" /\ fpc = "call"
    /\ ret' = ayah_translations_from_xml(<<AyaElement(Decimal(1), arg, None)>>)
    /\ fpc' = "return"
    /\ UNCHANGED <<fn, arg>>
    /\ UNCHANGED outsideText

CreateTranslationTable ==
    /\ fn = "create_translation_table" /\ fpc = "call"
    /\ ret' = create_translation_table(TextDoc(arg), 1, 1)
    /\ fpc' = "return"
    /\ UNCHANGED <<fn, arg>>
    /\ UNCHANGED outsideText

\* ------------------------------------------ Translation (two classes)
\* lib/translation.py Translation.__init__ (8-15), the class script.py
\* imports ("from lib.translation import Translation"): no mushaf parameter,
\* a flat list of ayah translations.
lib_Translation(language, src, bismillah_text, translator_username, release_date) ==
    [language |-> language, source |-> src, bismillah_text |-> bismillah_text,
     translator_username |-> translator_username, release_date |-> release_date,
     ayah_translations |-> <<>>]

\* the methods of that class (17-26)
lib_Translation_methods == {"ayah_translations_from_xml"}

\* parser/lib/translation.py TranslationSurah.__init__ (9-12)
TranslationSurah(number, name) ==
    [number |-> number, name |-> name, ayah_translations |-> <<>>]

\* parser/lib/translation.py Translation.__init__ (26-33)
Translation(mushaf, language, src, bismillah_text, translator_username, release_date) ==
    [mushaf |-> mushaf, language |-> language, source |-> src,
     bismillah_text |-> bismillah_text, translator_username |-> translator_username,
     release_date |-> release_date, surahs |-> <<>>]

\* parser/lib/translation.py Translation.surahs_from_xml (35-41)
surahs_from_xml(self, doc) ==
    [self EXCEPT !.surahs =
        @ \o [i \in 1..Len(doc) |->
                 [TranslationSurah(int(doc[i].index), doc[i].name)
                     EXCEPT !.ayah_translations = ayah_translations_from_xml(doc[i].ayas)]]]

\* script.py translation_xml_into_json (30-41) on the tree of the cleansed
\* file: root[0][0].attrib['text'], then the imported Translation built from
\* five positional arguments, then .surahs_from_xml(root) looked up on it.
translation_xml_into_json(doc, mushaf, src, language, author) ==
    IF doc = <<>> \/ doc[1].ayas = <<>> THEN Raised("IndexError")
    ELSE LET first_ayah_text == doc[1].ayas[1].text
             translation == lib_Translation(mushaf, language, src, first_ayah_text, author)
         IN  IF "surahs_from_xml" \in lib_Translation_methods
             THEN Returned(translation)
             ELSE Raised("AttributeError")

\* The translation documents: up to MaxSurahs suras of up to MaxAyahs ayas,
\* every verse text a letter or an apostrophe.
TranslationAyas ==
    UNION { { [j \in 1..k |-> AyaElement(Decimal(j), t[j], None)] :
                t \in [1..k -> {<<"a">>, <<APOSTROPHE>>}] }
            : k \in 0..MaxAyahs }

IsTranslationCall(x) ==
    \E n \in 0..MaxSurahs : \E ayas \in [1..n -> TranslationAyas] :
        \E language \in {"en", "fa"} : \E author \in {"mahdi", "bot"} :
            x = [root |-> StructDoc(n, ayas), mushaf |-> "hafs",
                 source |-> "tanzil.net", language |-> language, author |-> author]

TranslationXmlIntoJson ==
    /\ fn = "translation_xml_into_json" /\ fpc = "call"
    /\ ret' = translation_xml_into_json(arg.root, arg.mushaf, arg.source,
                                        arg.language, arg.author)
    /\ fpc' = "return"
    /\ UNCHANGED <<fn, arg>>
    /\ UNCHANGED outsideText

\* the class of parser/lib/translation.py given the same arguments
TranslationSurahsFromXml ==
    /\ fn = "Translation.surahs_from_xml" /\ fpc = "call"
    /\ ret' = IF arg.root = <<>> \/ arg.root[1].ayas = <<>> THEN Raised("IndexError")
              ELSE Returned(surahs_from_xml(
                       Translation(arg.mushaf, arg.language, arg.source,
                                   arg.root[1].ayas[1].text, arg.author, None),
                       arg.root))
    /\ fpc' = "return"
    /\ UNCHANGED <<fn, arg>>
    /\ UNCHANGED outsideText

\* ==================================== script.py main: the three commands
\* The argument list of a script.py run: the required arguments of the
\* command as USAGE lists them, then the optional trailing arguments.
RequiredArgs(command) ==
    CASE command = "script_quran" ->
             <<"script.py", "quran", "path", "mushaf_name", "mushaf_full_name", "mushaf_source">>
      [] command = "script_translation" ->
             <<"script.py", "translation", "path", "mushaf", "language", "author">>
      [] command = "script_bulk" ->
             <<"script.py", "translation-bulk", "dir", "output_dir", "mushaf">>

OptArgs == {"--pretty", "-v"}

ScriptCommands == {"script_quran", "script_translation", "script_bulk"}

\* args[i] of the source, which counts from 0
Arg(args, i) == args[i + 1]

\* pretty = (args[6] == "--pretty") if len(args) > 7 else False      (53)
\* pretty = (args[6] == "--pretty") if len(args) > 6 else False      (64)
\* pretty = (args[5] == "--pretty") if len(args) > 5 else False      (78)
pretty_flag(command, args) ==
    CASE command = "script_quran" ->
             IF Len(args) > 7 THEN Arg(args, 6) = "--pretty" ELSE FALSE
      [] command = "script_translation" ->
             IF Len(args) > 6 THEN Arg(args, 6) = "--pretty" ELSE FALSE
      [] command = "script_bulk" ->
             IF Len(args) > 5 THEN Arg(args, 5) = "--pretty" ELSE FALSE

\* main up to the call of the conversion: the command is matched and pretty
\* is computed
ScriptArgs ==
    /\ entry \in ScriptCommands /\ pc = "start"
    /\ pretty' = (IF pretty_flag(entry, RequiredArgs(entry) \o opt) THEN "True" ELSE "False")
    /\ pc' = CASE entry = "script_quran" -> "script_read"
               [] entry = "script_translation" -> "translation"
               [] entry = "script_bulk" -> "bulk"
    /\ UNCHANGED <<entry, argc, opt, dir, fidx, events, tables, committed, last>>
    /\ UNCHANGED outsideTools

\* A file of a translations directory: its name, whether ET.fromstring
\* accepts its cleansed content, and the tree it then returns.  A name is a
\* sequence of name characters, "en", "mahdi", "xml" and "txt" standing for
\* one character each.
TranslationFile(name, wellformed, doc) ==
    [name |-> name, wellformed |-> wellformed, root |-> doc]

FileNames ==
    { <<"en", ".", "mahdi", ".", "xml">>,
      <<"en", ".", "mahdi", ".", "txt">>,
      <<"en", ".", "mahdi", ".", "xml", ".", "txt">>,
      <<"en">> }

\* malformed, well formed without a sura, well formed with one verse
FileContents(name) ==
    { TranslationFile(name, FALSE, <<>>),
      TranslationFile(name, TRUE, <<>>),
      TranslationFile(name, TRUE, TextDoc(<<APOSTROPHE, "a">>)) }

\* os.scandir: the entries of a directory, in any order, no name twice
IsDirectory(d) ==
    \E k \in 0..MaxDirFiles : \E names \in [1..k -> FileNames] :
        /\ \A i, j \in 1..k : i /= j => names[i] /= names[j]
        /\ \E files \in [1..k -> UNION {FileContents(n) : n \in FileNames}] :
              /\ \A i \in 1..k : files[i].name = names[i]
              /\ d = files

\* translation.path
Path(name) == <<"dir", "/">> \o name

\* script.py main, command "translation" (58-67): the conversion of the one
\* file, then the write of "{language}.{author}.json"
ScriptTranslation ==
    /\ entry = "script_translation" /\ pc = "translation"
    /\ LET f == dir[1]
           args == RequiredArgs(entry) \o opt
           json_text == translation_xml_into_json(f.root, Arg(args, 3), "tanzil.net",
                                                  Arg(args, 4), Arg(args, 5))
       IN  IF ~f.wellformed
           THEN /\ pc' = "raised" /\ events' = events
           ELSE IF json_text.raised /= None
           THEN /\ pc' = "raised" /\ events' = events \cup {<<1, "parsed">>}
           ELSE /\ pc' = "done"
                /\ events' = events \cup {<<1, "parsed">>, <<1, "converted">>}
    /\ UNCHANGED <<entry, argc, opt, pretty, dir, fidx, tables, committed, last>>
    /\ UNCHANGED outsideTools

\* script.py main, command "translation-bulk" (69-86): one turn of the loop
\* over files_in_dir
ScriptBulkFile ==
    /\ entry = "script_bulk" /\ pc = "bulk" /\ fidx < Len(dir)
    /\ LET f == dir[fidx + 1]
           metadata == translation_metadata(Path(f.name))
       IN  IF metadata.raised /= None \/ ~f.wellformed
           THEN /\ pc' = "raised" /\ events' = events /\ fidx' = fidx
           ELSE LET json_text == translation_xml_into_json(
                                     f.root, Arg(RequiredArgs(entry) \o opt, 4), "tanzil.net",
                                     metadata.value[1], metadata.value[2])
                IN  IF json_text.raised /= None
                    THEN /\ pc' = "raised" /\ fidx' = fidx
                         /\ events' = events \cup {<<fidx + 1, "parsed">>}
                    ELSE /\ pc' = "bulk" /\ fidx' = fidx + 1
                         /\ events' = events \cup {<<fidx + 1, "parsed">>,
                                                   <<fidx + 1, "converted">>}
    /\ UNCHANGED <<entry, argc, opt, pretty, dir, tables, committed, last>>
    /\ UNCHANGED outsideTools

\* the loop is over
ScriptBulkDone ==
    /\ entry = "script_bulk" /\ pc = "bulk" /\ fidx = Len(dir)
    /\ pc' = "done"
    /\ UNCHANGED <<entry, argc, opt, pretty, dir, fidx, events, tables, committed, last>>
    /\ UNCHANGED outsideTools

\* ============================================== the database programs
\* The tables the programs write: a row is kept as the values the code
\* gives it, its id is its position in the table.
EmptyTables ==
    [app_accounts |-> <<>>, app_users |-> <<>>, app_emails |-> <<>>,
     app_permissions |-> <<>>, translations |-> <<>>, translations_text |-> <<>>]

\* SELECT id FROM table WHERE column = value: the ids of the matching rows
Ids(table, value) == {id \in 1..Len(table) : table[id] = value}

\* what a create_user call did: the tables after it and what it gave
Outcome(t, r) == [tables |-> t, ret |-> r]

\* create_user of translation_parser.py (82-113) and of
\* accounts_bootstrap.py (10-41), the same code:
\* INSERT INTO app_accounts ... ON CONFLICT (username) DO NOTHING RETURNING id;
\* a row came back: INSERT INTO app_users ... RETURNING id;
\* none came back: SELECT the account id, SELECT the user id of that account;
\* return (account_id[0], user_id[0])
create_user(t, username) ==
    LET accounts == Ids(t.app_accounts, username)
    IN  IF accounts = {}
        THEN LET account_id == Len(t.app_accounts) + 1
                 user_id == Len(t.app_users) + 1
             IN  Outcome([t EXCEPT !.app_accounts = Append(@, username),
                                   !.app_users = Append(@, account_id)],
                         Returned(<<account_id, user_id>>))
        ELSE LET account_id == Min(accounts)
                 users == Ids(t.app_users, account_id)
             IN  IF users = {} THEN Outcome(t, Raised("TypeError"))
                 ELSE Outcome(t, Returned(<<account_id, Min(users)>>))

AdminPermissions ==
    << <<"permission", "create">>, <<"permission", "delete">>, <<"permission", "view">>,
       <<"permission", "edit">>, <<"user", "view">> >>

\* create_user of admin_user_creator.py (10-53): the same INSERT ... ON
\* CONFLICT DO NOTHING RETURNING id; a row came back: the user, the email and
\* the five permissions are inserted; none came back: account_id is None,
\* nothing is selected, and return (account_id[0], user_id[0]) subscripts
\* None.
admin_create_user(t, username, email) ==
    LET accounts == Ids(t.app_accounts, username)
    IN  IF accounts = {}
        THEN LET account_id == Len(t.app_accounts) + 1
                 user_id == Len(t.app_users) + 1
             IN  Outcome([t EXCEPT !.app_accounts = Append(@, username),
                                   !.app_users = Append(@, account_id),
                                   !.app_emails = Append(@, email),
                                   !.app_permissions = @ \o AdminPermissions],
                         Returned(<<account_id, user_id>>))
        ELSE Outcome(t, Raised("TypeError"))

\* user names are texts like the segments of a file name
BOOTSTRAP_BOT == <<"bootstrap_bot">>
ADMIN == <<"admin">>
MAHDI == <<"mahdi">>

\* The database as earlier runs left it: for each name of us, in this order,
\* a translator account, the bootstrap account, the admin account.
ExistingTables(us) ==
    LET t1 == IF MAHDI \in us THEN create_user(EmptyTables, MAHDI).tables ELSE EmptyTables
        t2 == IF BOOTSTRAP_BOT \in us THEN create_user(t1, BOOTSTRAP_BOT).tables ELSE t1
    IN  IF ADMIN \in us THEN admin_create_user(t2, ADMIN, "email").tables ELSE t2

\* the last create_user call of the run: who called, for which name, the
\* tables before and after, and what it gave
NoCall ==
    [fn |-> "none", username |-> <<>>, before |-> EmptyTables, after |-> EmptyTables,
     ret |-> Returned(<<>>)]

Call(name, username, before, outcome) ==
    [fn |-> name, username |-> username, before |-> before, after |-> outcome.tables,
     ret |-> outcome.ret]

DbPrograms == {"translation_parser", "accounts_bootstrap", "admin_user_creator"}

\* if len(args) < n: exit(1)
\* (translation_parser.py 116, accounts_bootstrap.py 44, admin_user_creator.py 56)
MinArgs(program) == IF program = "translation_parser" THEN 7 ELSE 6

\* the largest index main subscripts args with
\* (translation_parser.py 127, accounts_bootstrap.py 53, admin_user_creator.py 69)
LastArg(program) ==
    CASE program = "translation_parser" -> 6
      [] program = "accounts_bootstrap" -> 5
      [] program = "admin_user_creator" -> 7

\* main up to the connection: the length check, then the subscripts of args
DbCheckArgs ==
    /\ entry \in DbPrograms /\ pc = "start"
    /\ pc' = IF argc < MinArgs(entry) THEN "exit_usage"
             ELSE IF ~(LastArg(entry) < argc) THEN "raised"
             ELSE "connect"
    /\ UNCHANGED <<entry, argc, opt, pretty, dir, fidx, events, tables, committed, last>>
    /\ UNCHANGED outsideTools

\* psycopg2.connect; the server may refuse.  The session sees the committed
\* rows.
DbConnect ==
    /\ entry \in DbPrograms /\ pc = "connect"
    /\ pc' \in {IF entry = "translation_parser" THEN "loop" ELSE "create_user", "raised"}
    /\ tables' = committed
    /\ UNCHANGED <<entry, argc, opt, pretty, dir, fidx, events, committed, last>>
    /\ UNCHANGED outsideTools

\* ------------------------------ translation_parser.py main, the loop (141-203)
\* cur = conn.cursor(); metadata = translation_metadata(path);
\* if metadata["type"] != "xml": exit(1); the file is read
TpFileStart ==
    /\ entry = "translation_parser" /\ pc = "loop" /\ fidx < Len(dir)
    /\ LET metadata == tp_translation_metadata(Path(dir[fidx + 1].name))
       IN  pc' = IF metadata.raised /= None THEN "raised"
                 ELSE IF metadata.value.type /= <<"xml">> THEN "exit_err"
                 ELSE "create_user"
    /\ UNCHANGED <<entry, argc, opt, pretty, dir, fidx, events, tables, committed, last>>
    /\ UNCHANGED outsideTools

\* author_user = create_user(cur, metadata["author"])
TpCreateUser ==
    /\ entry = "translation_parser" /\ pc = "create_user"
    /\ LET metadata == tp_translation_metadata(Path(dir[fidx + 1].name))
           outcome == create_user(tables, metadata.value.author)
       IN  /\ last' = Call("translation_parser", metadata.value.author, tables, outcome)
           /\ IF outcome.ret.raised = None
              THEN tables' = outcome.tables /\ pc' = "commit_user"
              ELSE tables' = committed /\ pc' = "raised"
    /\ UNCHANGED <<entry, argc, opt, pretty, dir, fidx, events, committed>>
    /\ UNCHANGED outsideTools

\* conn.commit()   (170)
TpCommitUser ==
    /\ entry = "translation_parser" /\ pc = "commit_user"
    /\ committed' = tables
    /\ pc' = "parse"
    /\ UNCHANGED <<entry, argc, opt, pretty, dir, fidx, events, tables, last>>
    /\ UNCHANGED outsideTools

\* remove_comments_from_xml, ET.fromstring, root[0][0].attrib['text']
TpParse ==
    /\ entry = "translation_parser" /\ pc = "parse"
    /\ LET f == dir[fidx + 1]
       IN  IF ~f.wellformed
           THEN pc' = "raised" /\ events' = events
           ELSE /\ events' = events \cup {<<fidx + 1, "parsed">>}
                /\ pc' = IF f.root = <<>> \/ f.root[1].ayas = <<>> THEN "raised"
                         ELSE "insert_translation"
    /\ UNCHANGED <<entry, argc, opt, pretty, dir, fidx, tables, committed, last>>
    /\ UNCHANGED outsideTools

\* INSERT INTO translations(...) VALUES (2, 1, author_user[0], language,
\* True, TRANSLATIONS_SOURCE, first_ayah_text) RETURNING id
TpInsertTranslation ==
    /\ entry = "translation_parser" /\ pc = "insert_translation"
    /\ LET f == dir[fidx + 1]
           metadata == tp_translation_metadata(Path(f.name))
       IN  tables' = [tables EXCEPT !.translations =
                         Append(@, [translator_account_id |-> last.ret.value[1],
                                    language |-> metadata.value.language,
                                    source |-> "tanzil",
                                    bismillah_text |-> f.root[1].ayas[1].text])]
    /\ pc' = "insert_texts"
    /\ UNCHANGED <<entry, argc, opt, pretty, dir, fidx, events, committed, last>>
    /\ UNCHANGED outsideTools

\* cur.execute(create_translation_table(root, translation_id, 1))
TpInsertTexts ==
    /\ entry = "translation_parser" /\ pc = "insert_texts"
    /\ tables' = [tables EXCEPT !.translations_text =
                     @ \o create_translation_table(dir[fidx + 1].root,
                                                   Len(tables.translations), 1)]
    /\ pc' = "commit_file"
    /\ UNCHANGED <<entry, argc, opt, pretty, dir, fidx, events, committed, last>>
    /\ UNCHANGED outsideTools

\* conn.commit(); cur.close(); i += 1   (197-201)
TpCommitFile ==
    /\ entry = "translation_parser" /\ pc = "commit_file"
    /\ committed' = tables
    /\ events' = events \cup {<<fidx + 1, "imported">>}
    /\ fidx' = fidx + 1
    /\ pc' = "loop"
    /\ UNCHANGED <<entry, argc, opt, pretty, dir, tables, last>>
    /\ UNCHANGED outsideTools

\* conn.close()   (207)
TpClose ==
    /\ entry = "translation_parser" /\ pc = "loop" /\ fidx = Len(dir)
    /\ pc' = "done"
    /\ UNCHANGED <<entry, argc, opt, pretty, dir, fidx, events, tables, committed, last>>
    /\ UNCHANGED outsideTools

\* ------------------------------------ accounts_bootstrap.py main (62-67)
\* _ = create_user(cur, "bootstrap_bot")
AbCreateUser ==
    /\ entry = "accounts_bootstrap" /\ pc = "create_user"
    /\ LET outcome == create_user(tables, BOOTSTRAP_BOT)
       IN  /\ last' = Call("accounts_bootstrap", BOOTSTRAP_BOT, tables, outcome)
           /\ IF outcome.ret.raised = None
              THEN tables' = outcome.tables /\ pc' = "commit"
              ELSE tables' = committed /\ pc' = "raised"
    /\ UNCHANGED <<entry, argc, opt, pretty, dir, fidx, events, committed>>
    /\ UNCHANGED outsideTools

\* -------------------------------------- admin_user_creator.py main (76-81)
\* _,_ = create_user(cur, admin_username, admin_email)
AdminCreateUser ==
    /\ entry = "admin_user_creator" /\ pc = "create_user"
    /\ LET outcome == admin_create_user(tables, ADMIN, "email")
       IN  /\ last' = Call("admin_user_creator", ADMIN, tables, outcome)
           /\ IF outcome.ret.raised = None
              THEN tables' = outcome.tables /\ pc' = "commit"
              ELSE tables' = committed /\ pc' = "raised"
    /\ UNCHANGED <<entry, argc, opt, pretty, dir, fidx, events, committed>>
    /\ UNCHANGED outsideTools

\* conn.commit(); cur.close(); conn.close()
\* (accounts_bootstrap.py 64-67, admin_user_creator.py 78-81)
DbCommit ==
    /\ entry \in {"accounts_bootstrap", "admin_user_creator"} /\ pc = "commit"
    /\ committed' = tables
    /\ pc' = "done"
    /\ UNCHANGED <<entry, argc, opt, pretty, dir, fidx, events, tables, last>>
    /\ UNCHANGED outsideTools

\* ------------------------------------------------------- specifications
ParseIdle ==
    /\ root = <<>> /\ quran = <<>> /\ cur = None /\ si = 0 /\ ai = 0
    /\ ppc = "idle" /\ words_table = <<>> /\ json = <<>>
    /\ ayahs_table = <<>> /\ surahs_table = <<>>

ToolIdle ==
    /\ opt = <<>> /\ pretty = "unset" /\ dir = <<>> /\ fidx = 0 /\ events = {}
    /\ tables = <<>> /\ committed = <<>> /\ last = <<>>

MainIdle ==
    /\ entry = "none" /\ argc = 0 /\ file = <<>> /\ pc = "idle" /\ source = <<>>
    /\ valid = "unset" /\ parsed = FALSE /\ output = FALSE /\ db = <<>>
    /\ ToolIdle

TextIdle == fn = "none" /\ arg = <<>> /\ ret = <<>> /\ fpc = "idle"

\* the inputs of a run, by program
InitRun ==
    \/ /\ entry = "quran_parser"
       /\ argc \in {6, 7}
       /\ file \in SeqsUpTo(Bytes, MaxFileLen)
       /\ opt = <<>> /\ dir = <<>> /\ committed = EmptyTables
    \/ /\ entry = "script_quran"
       /\ opt \in SeqsUpTo(OptArgs, MaxOptArgs)
       /\ argc = Len(RequiredArgs(entry)) + Len(opt)
       /\ file \in SeqsUpTo(Bytes, MaxFileLen)
       /\ dir = <<>> /\ committed = EmptyTables
    \/ /\ entry = "script_translation"
       /\ opt \in SeqsUpTo(OptArgs, MaxOptArgs)
       /\ argc = Len(RequiredArgs(entry)) + Len(opt)
       /\ IsDirectory(dir) /\ Len(dir) = 1
       /\ file = <<>> /\ committed = EmptyTables
    \/ /\ entry = "script_bulk"
       /\ opt \in SeqsUpTo(OptArgs, MaxOptArgs)
       /\ argc = Len(RequiredArgs(entry)) + Len(opt)
       /\ IsDirectory(dir)
       /\ file = <<>> /\ committed = EmptyTables
    \/ /\ entry = "translation_parser"
       /\ argc \in {6, 7}
       /\ IsDirectory(dir)
       /\ \E us \in SUBSET {MAHDI, BOOTSTRAP_BOT, ADMIN} : committed = ExistingTables(us)
       /\ opt = <<>> /\ file = <<>>
    \/ /\ entry \in {"accounts_bootstrap", "admin_user_creator"}
       /\ argc \in 5..8
       /\ \E us \in SUBSET {MAHDI, BOOTSTRAP_BOT, ADMIN} : committed = ExistingTables(us)
       /\ opt = <<>> /\ dir = <<>> /\ file = <<>>

Init ==
    /\ InitRun
    /\ pc = "start"
    /\ source = <<>>
    /\ valid = "unset"
    /\ parsed = FALSE
    /\ output = FALSE
    /\ db = <<>>
    /\ pretty = "unset"
    /\ fidx = 0
    /\ events = {}
    /\ tables = committed
    /\ last = NoCall
    /\ ParseIdle
    /\ TextIdle

Next ==
    \/ MainCheckArgs
    \/ MainRead
    \/ MainValidate
    \/ MainFromString
    \/ MainTables
    \/ MainConnect
    \/ MainExecuteHafs
    \/ MainExecuteFinal
    \/ MainCommit
    \/ MainClose
    \/ ScriptArgs
    \/ ScriptRead
    \/ ScriptFromString
    \/ ScriptDumps
    \/ ScriptWrite
    \/ ScriptTranslation
    \/ ScriptBulkFile
    \/ ScriptBulkDone
    \/ DbCheckArgs
    \/ DbConnect
    \/ TpFileStart
    \/ TpCreateUser
    \/ TpCommitUser
    \/ TpParse
    \/ TpInsertTranslation
    \/ TpInsertTexts
    \/ TpCommitFile
    \/ TpClose
    \/ AbCreateUser
    \/ AdminCreateUser
    \/ DbCommit

Spec == Init /\ [][Next]_vars

InitParse ==
    /\ MainIdle
    /\ TextIdle
    /\ IsInputDocument(root)
    /\ quran = <<>>
    /\ cur = None
    /\ si = 0
    /\ ai = 0
    /\ ppc = "surahs"
    /\ words_table = <<>>
    /\ ayahs_table = <<>>
    /\ surahs_table = <<>>
    /\ json = <<>>

NextParse ==
    \/ SurahsFromXmlNext
    \/ AyahsFromXmlNext
    \/ AyahsFromXmlReturn
    \/ SurahsFromXmlReturn
    \/ ParseQuranSurahsTable
    \/ ParseQuranWordsTable
    \/ ParseQuranAyahsTable
    \/ JsonDumps

SpecParse == InitParse /\ [][NextParse]_vars

InitText ==
    /\ MainIdle
    /\ ParseIdle
    /\ \/ fn = "remove_comments_from_xml" /\ IsCommentInput(arg)
       \/ /\ fn \in {"translation_metadata", "tp_translation_metadata"}
          /\ arg \in SeqsUpTo(PathChars, MaxPathLen)
       \/ /\ fn \in {"ayah_translations_from_xml", "create_translation_table"}
          /\ IsQuoteInput(arg)
       \/ /\ fn \in {"translation_xml_into_json", "Translation.surahs_from_xml"}
          /\ IsTranslationCall(arg)
    /\ ret = <<>>
    /\ fpc = "call"

NextText ==
    \/ RemoveCommentsFromXml
    \/ TranslationMetadata
    \/ TpTranslationMetadata
    \/ AyahTranslationsFromXml
    \/ CreateTranslationTable
    \/ TranslationXmlIntoJson
    \/ TranslationSurahsFromXml

SpecText == InitText /\ [][NextText]_vars

\* ================================================================ claims

\* ---- entry points (Spec)

\* C1: in a quran_parser run no database call (connect, INSERT execute,
\* commit) is issued unless validate_tanzil_quran returned true for the
\* source read in that run; on a digest mismatch the run stops in exit_err
\* with no database call issued and no tree parsed.
NoDatabaseActionUnlessValid ==
    entry = "quran_parser" =>
        /\ db /= <<>> => (valid = "True" /\ validate_tanzil_quran(source))
        /\ valid = "False" => (pc = "exit_err" /\ db = <<>> /\ ~parsed)

\* C1 witness: a run whose source failed validation has been aborted.
MismatchAborted ==
    /\ entry = "quran_parser" /\ pc = "exit_err" /\ valid = "False"
    /\ WellFormed(source) /\ ~validate_tanzil_quran(source) /\ db = <<>>

\* C2: in every entry point that parses a Quran source, a tree is parsed or
\* an output produced only from a source whose digest is the pinned digest.
ValidatorGatesEveryEntryPoint ==
    (parsed \/ output \/ db /= <<>>) => validate_tanzil_quran(source)

\* C3: the digest checked in a quran_parser run is that of the exact bytes
\* of the file: validation passes for the reference byte sequence and fails
\* for every other file, a one-byte mutation of the reference included.
DigestIsOverExactFileBytes ==
    (entry = "quran_parser" /\ valid /= "unset") =>
        (valid = "True" <=> file = ReferenceSource)

\* ---- parser (SpecParse)

\* the aya elements the parser has turned into Ayahs so far: <<i, j>> is aya
\* j of sura i
ParsedAyahs ==
    UNION { {<<i, j>> : j \in 1..Len(quran[i].ayahs)} : i \in 1..Len(quran) }

AyahAt(p) == quran[p[1]].ayahs[p[2]]
ElementAt(p) == root[p[1]].ayas[p[2]]
WordTexts(ayah) == [k \in 1..Len(ayah.words) |-> ayah.words[k].text]

\* the period lookup gives makki or madani for every chapter number 1..114
PeriodTableTotal == \A n \in 1..114 : periods_get(n) \in {"makki", "madani"}

\* the sajdah table has 14 entries
SajdahTableSize == Cardinality(DOMAIN sajdahs)

\* C4: the period lookup is defined for every chapter number 1..114 and is
\* one of makki, madani; every Surah built from a declared index in 1..114
\* has such a period.
PeriodDefinedForAllChapters ==
    /\ PeriodTableTotal
    /\ \A i \in 1..Len(quran) :
          int(root[i].index) \in 1..114 =>
              /\ quran[i].number = int(root[i].index)
              /\ quran[i].period \in {"makki", "madani"}
    /\ (ppc = "ayahs" /\ cur.surah.number \in 1..114) =>
          cur.surah.period \in {"makki", "madani"}

\* C4 witness: the Surah of the last chapter has been built, with a period.
LastChapterBuilt ==
    \E i \in 1..Len(quran) : quran[i].number = 114 /\ quran[i].period = "makki"

\* C5: the sajdah table has 14 entries; an Ayah whose (chapter, verse) pair
\* is in the table is classified vajib or mustahab, as the table says, and
\* every other Ayah is classified None.
SajdahClassification ==
    /\ SajdahTableSize = 14
    /\ \A p \in ParsedAyahs :
          LET key == <<int(root[p[1]].index), int(ElementAt(p).index)>>
          IN  IF key \in DOMAIN sajdahs
              THEN AyahAt(p).sajdah = sajdahs[key]
                   /\ AyahAt(p).sajdah \in {"vajib", "mustahab"}
              ELSE AyahAt(p).sajdah = None

\* C5 witness: the Ayah of a listed pair has been built.
SajdahAyahBuilt ==
    \E p \in ParsedAyahs :
        /\ int(root[p[1]].index) = 32 /\ AyahAt(p).number = 15
        /\ AyahAt(p).sajdah = "vajib"

\* the two-chapter, one-verse-each fixture: chapter 1 verse 1 is the basmala
Fixture ==
    StructDoc(2, << <<AyaElement(Decimal(1), BISMILLAH, None)>>,
                    <<AyaElement(Decimal(1), <<"a">>, None)>> >>)

\* C6: an Ayah has is_bismillah = true iff the text attribute of its aya
\* element equals BISMILLAH; for the fixture, chapter 1's verse is flagged
\* and chapter 2's first verse is not.
BismillahIffTextEqual ==
    /\ \A p \in ParsedAyahs :
          AyahAt(p).is_bismillah = (ElementAt(p).text = BISMILLAH)
    /\ (root = Fixture /\ ppc = "done") =>
          /\ quran[1].ayahs[1].is_bismillah = TRUE
          /\ quran[2].ayahs[1].is_bismillah = FALSE

\* C6 witness: the fixture has been parsed.
FixtureParsed ==
    /\ root = Fixture /\ ppc = "done" /\ Len(quran) = 2
    /\ quran[1].ayahs[1].is_bismillah /\ ~quran[2].ayahs[1].is_bismillah

\* C7: each surah of a produced tree holds at most one Ayah with
\* is_bismillah = true, whatever the input document.
AtMostOneBismillahPerSurah ==
    \A i \in 1..Len(quran) :
        Cardinality({j \in 1..Len(quran[i].ayahs) : quran[i].ayahs[j].is_bismillah}) <= 1

\* the non-empty single-space-separated tokens of the glyph-stripped text
StripGlyph(text) == SelectSeq(text, LAMBDA c : c /= SAJDAH_GLYPH)

RECURSIVE Tokens(_, _)
Tokens(text, token) ==
    IF text = <<>> THEN (IF token = <<>> THEN <<>> ELSE <<token>>)
    ELSE IF Head(text) = SP
         THEN (IF token = <<>> THEN <<>> ELSE <<token>>) \o Tokens(Tail(text), <<>>)
         ELSE Tokens(Tail(text), Append(token, Head(text)))

NonEmptyTokens(text) == Tokens(StripGlyph(text), <<>>)

\* C8: the Word sequence of a verse, and the words of its quran_words rows,
\* are exactly the non-empty tokens of the glyph-stripped text, in order.
WordsAreTheNonEmptyTokens ==
    /\ \A p \in ParsedAyahs :
          WordTexts(AyahAt(p)) = NonEmptyTokens(ElementAt(p).text)
    /\ (ppc = "rows" /\ Len(iter_aya(root)) = 1) =>
          [k \in 1..Len(words_table) |-> words_table[k][3]]
              = NonEmptyTokens(iter_aya(root)[1].text)

RECURSIVE Join(_)
Join(words) ==
    IF words = <<>> THEN <<>>
    ELSE IF Len(words) = 1 THEN words[1]
    ELSE words[1] \o <<SP>> \o Join(Tail(words))

\* C9: joining the parsed words of a verse with single spaces gives the
\* verse text with every U+06E9 removed and every other character, spaces
\* included, unchanged and in order; no parsed word contains U+06E9.
JoinedWordsAreTextWithoutGlyph ==
    \A p \in ParsedAyahs :
        /\ Join(WordTexts(AyahAt(p))) = StripGlyph(ElementAt(p).text)
        /\ \A k \in 1..Len(AyahAt(p).words) :
              \A c \in 1..Len(AyahAt(p).words[k].text) :
                  AyahAt(p).words[k].text[c] /= SAJDAH_GLYPH

\* C9 witness: a verse with the glyph as its own token between two words.
GlyphTokenParsed ==
    \E p \in ParsedAyahs :
        /\ ElementAt(p).text = <<"a", SP, SAJDAH_GLYPH, SP, "b">>
        /\ WordTexts(AyahAt(p)) = << <<"a">>, <<>>, <<"b">> >>

\* C10: removing the glyph from a text it was already removed from changes
\* nothing: for every verse parsed, the removal applied twice equals the
\* removal applied once, and the parsed words are those of the once-stripped
\* text.
GlyphRemovalIdempotent ==
    \A p \in ParsedAyahs :
        LET once == replace_sajdah(ElementAt(p).text)
        IN  /\ replace_sajdah(once) = once
            /\ Join(WordTexts(AyahAt(p))) = replace_sajdah(Join(WordTexts(AyahAt(p))))

\* C10 witness: a verse whose text holds the glyph more than once.
TwoGlyphsParsed ==
    \E p \in ParsedAyahs :
        /\ Cardinality({c \in 1..Len(ElementAt(p).text) :
                           ElementAt(p).text[c] = SAJDAH_GLYPH}) >= 2
        /\ Join(WordTexts(AyahAt(p))) = replace_sajdah(ElementAt(p).text)

\* ---- text functions (SpecText)

\* the comments of a text from position from on: the first "<!--" that has a
\* "-->" after it, up to the nearest such "-->", then the comments after it
RECURSIVE CommentSpans(_, _)
CommentSpans(text, from) ==
    LET opens == {s \in from..Len(text) :
                     /\ HasAt(text, s, COMMENT_OPEN)
                     /\ \E e \in (s + 4)..Len(text) : HasAt(text, e, COMMENT_CLOSE)}
    IN  IF opens = {} THEN {}
        ELSE LET s == CHOOSE x \in opens : \A y \in opens : x <= y
                 e == CHOOSE x \in (s + 4)..Len(text) :
                         /\ HasAt(text, x, COMMENT_CLOSE)
                         /\ \A y \in (s + 4)..(x - 1) : ~HasAt(text, y, COMMENT_CLOSE)
             IN  {<<s, e + 2>>} \cup CommentSpans(text, e + 3)

\* the characters of text at the positions of keep, in order
RECURSIVE Pick(_, _, _)
Pick(text, keep, i) ==
    IF i > Len(text) THEN <<>>
    ELSE (IF i \in keep THEN <<text[i]>> ELSE <<>>) \o Pick(text, keep, i + 1)

OutsideSpans(text, spans) ==
    {p \in 1..Len(text) : \A sp \in spans : p < sp[1] \/ p > sp[2]}

\* C11: remove_comments_from_xml deletes exactly the comments of the decoded
\* input, each the span from a "<!--" to the nearest following "-->", be they
\* none, one or many, multi-line or adjacent; every character outside the
\* spans is kept in order, and without a comment the output is the decoded
\* input.
CommentsRemoved ==
    (fn = "remove_comments_from_xml" /\ fpc = "return") =>
        LET text == decode(arg)
            spans == CommentSpans(text, 1)
        IN  /\ ret = Pick(text, OutsideSpans(text, spans), 1)
            /\ spans = {} => ret = text

\* C11 witness: two adjacent comments, the first of them multi-line, with
\* text after them, have been removed.
AdjacentCommentsRemoved ==
    /\ fn = "remove_comments_from_xml" /\ fpc = "return"
    /\ decode(arg) = COMMENT_OPEN \o <<LF>> \o COMMENT_CLOSE
                        \o COMMENT_OPEN \o COMMENT_CLOSE
    /\ ret = <<>>

\* the dot-separated segments of the base name of a path
BaseNameSegments(path) == str_split(os_path_split_tail(path), ".")

\* C12: translation_metadata returns the first and second segment of a base
\* name of exactly three dot-separated segments, and for a base name of any
\* other number of segments it raises instead of returning a value.
MetadataOnlyFromThreeSegments ==
    (fn \in {"translation_metadata", "tp_translation_metadata"} /\ fpc = "return") =>
        LET segments == BaseNameSegments(arg)
        IN  IF Len(segments) = 3
            THEN /\ ret.raised = None
                 /\ fn = "translation_metadata" => ret.value = <<segments[1], segments[2]>>
                 /\ fn = "tp_translation_metadata" =>
                        /\ ret.value.language = segments[1]
                        /\ ret.value.author = segments[2]
            ELSE ret.raised /= None

\* the verse text a returned record or row stores
StoredText == IF fn = "ayah_translations_from_xml" THEN ret[1].text ELSE ret[1][2]

\* where character i of text lands once every apostrophe before it took six
\* characters
EscapedPosition(text, i) ==
    i + 5 * Cardinality({j \in 1..(i - 1) : text[j] = APOSTROPHE})

\* C13: a stored translated verse text (AyahTranslation.text, the text column
\* of a translations_text row) contains no apostrophe: every apostrophe of
\* the source text stands as the six characters "&quot;" and every other
\* character is unchanged and in order.
NoApostropheStored ==
    (fn \in {"ayah_translations_from_xml", "create_translation_table"} /\ fpc = "return") =>
        /\ \A k \in 1..Len(StoredText) : StoredText[k] /= APOSTROPHE
        /\ Len(StoredText) = EscapedPosition(arg, Len(arg) + 1) - 1
        /\ \A i \in 1..Len(arg) :
              IF arg[i] = APOSTROPHE
              THEN SubSeq(StoredText, EscapedPosition(arg, i), EscapedPosition(arg, i) + 5) = QUOT
              ELSE StoredText[EscapedPosition(arg, i)] = arg[i]

\* C13 witness: a verse text with two apostrophes around a letter has been
\* stored.
TwoApostrophesStored ==
    /\ fn \in {"ayah_translations_from_xml", "create_translation_table"} /\ fpc = "return"
    /\ arg = <<APOSTROPHE, "a", APOSTROPHE>>
    /\ StoredText = QUOT \o <<"a">> \o QUOT

\* C14: translation_xml_into_json(file, mushaf, source, language, author)
\* yields a Translation whose mushaf, language, source and
\* translator_username are the arguments of those names, whose bismillah_text
\* is the text of the first verse of the first chapter, and whose surahs hold
\* one TranslationSurah per sura element.
TranslationFieldsFromArguments ==
    (/\ fn = "translation_xml_into_json" /\ fpc = "return"
     /\ arg.root /= <<>> /\ arg.root[1].ayas /= <<>>) =>
        /\ ret.raised = None
        /\ "mushaf" \in DOMAIN ret.value /\ ret.value.mushaf = arg.mushaf
        /\ ret.value.language = arg.language
        /\ ret.value.source = arg.source
        /\ ret.value.translator_username = arg.author
        /\ ret.value.bismillah_text = arg.root[1].ayas[1].text
        /\ "surahs" \in DOMAIN ret.value /\ Len(ret.value.surahs) = Len(arg.root)
        /\ \A i \in 1..Len(arg.root) :
              ret.value.surahs[i].number = int(arg.root[i].index)

\* ---- serializer and period gap (SpecParse)

\* the member names of a written object, in the order written
Keys(object) == [k \in 1..Len(object) |-> object[k][1]]

\* the value of member key of a written object
Member(object, key) == object[CHOOSE k \in 1..Len(object) : object[k][1] = key][2]

\* C15: the serializer writes the members of every object in the order of the
\* data model: a Mushaf as short_name, full_name, source; a Surah as name,
\* number, period, ayahs; an Ayah as number, sajdah, is_bismillah,
\* bismillah_text, words, the optional ones always present.
SerializedInDataModelOrder ==
    ppc = "dumped" =>
        /\ Keys(Member(json, "mushaf")) = <<"short_name", "full_name", "source">>
        /\ \A i \in 1..Len(Member(json, "surahs")) :
              LET surah == Member(json, "surahs")[i]
              IN  /\ Keys(surah) = <<"name", "number", "period", "ayahs">>
                  /\ \A j \in 1..Len(Member(surah, "ayahs")) :
                        Keys(Member(surah, "ayahs")[j]) =
                            <<"number", "sajdah", "is_bismillah", "bismillah_text", "words">>

\* C16: a chapter number outside 1..114 is fatal: parsing aborts and no Surah
\* with an undefined period is ever produced.
NoSurahWithUndefinedPeriod ==
    /\ ppc = "ayahs" => cur.surah.period /= None
    /\ \A i \in 1..Len(quran) : quran[i].period /= None

\* ---- entry points, continued (Spec)

\* the calls of db that are INSERT executions, in the order issued
Inserts == SelectSeq(db, LAMBDA call : call \in {"insert_mushaf", "insert_surahs",
                                                  "insert_ayahs", "insert_words"})

\* C19: in a quran_parser run the inserts go in dependency order, the mushaf
\* row, then the quran_surahs rows, then the quran_ayahs rows, then the
\* quran_words rows, and the commit is issued only after all four; a
\* successful run has issued them all and committed.
InsertsInDependencyOrder ==
    entry = "quran_parser" =>
        LET order == <<"insert_mushaf", "insert_surahs", "insert_ayahs", "insert_words">>
        IN  /\ Len(Inserts) <= 4 /\ Inserts = SubSeq(order, 1, Len(Inserts))
            /\ \A k \in 1..Len(db) :
                  db[k] = "commit" => SelectSeq(SubSeq(db, 1, k - 1),
                                          LAMBDA call : call \in {"insert_mushaf", "insert_surahs",
                                                                  "insert_ayahs", "insert_words"}) = order
            /\ pc = "done" => (Inserts = order /\ \E k \in 1..Len(db) : db[k] = "commit")

\* C19 witness: a quran_parser run has ended successfully.
ImportCommitted ==
    /\ entry = "quran_parser" /\ pc = "done"
    /\ db = <<"connect", "insert_mushaf", "insert_surahs", "insert_ayahs",
              "insert_words", "commit", "close">>

\* what follows the last dot of a file name, nothing for a name without a dot
FileExtension(name) ==
    IF Len(str_split(name, ".")) < 2 THEN <<>>
    ELSE str_split(name, ".")[Len(str_split(name, "."))]

\* C17: in the bulk translation entry points (script.py translation-bulk and
\* translation_parser.main) a directory entry whose extension is not xml is
\* rejected: it is never parsed, never converted to output, never imported.
NonXmlNeverProcessed ==
    entry \in {"script_bulk", "translation_parser"} =>
        \A i \in 1..Len(dir) :
            FileExtension(dir[i].name) /= <<"xml">> =>
                \A kind \in {"parsed", "converted", "imported"} : <<i, kind>> \notin events

\* C18: for each of the three script.py commands the trailing optional
\* argument --pretty, given as USAGE shows it, selects pretty mode, and its
\* omission selects compact mode.
PrettyAsUsageShows ==
    (entry \in ScriptCommands /\ pretty /= "unset") =>
        /\ opt = <<"--pretty">> => pretty = "True"
        /\ opt = <<>> => pretty = "False"

\* the accounts named username and their users in the tables t
AccountsOf(t, username) == {a \in 1..Len(t.app_accounts) : t.app_accounts[a] = username}
UsersOf(t, username) == {u \in 1..Len(t.app_users) : t.app_users[u] \in AccountsOf(t, username)}

\* C20: every create_user variant is idempotent per username: without an
\* account of that name it creates one account and one user and returns
\* their ids; with the account and its user in place it inserts no row and
\* returns their ids without failing; there is never more than one account
\* and one user per username.
CreateUserIdempotent ==
    last.fn /= "none" =>
        LET u == last.username
            before == last.before
            after == last.after
        IN  /\ AccountsOf(before, u) = {} =>
                  /\ last.ret.raised = None
                  /\ Len(after.app_accounts) = Len(before.app_accounts) + 1
                  /\ Len(after.app_users) = Len(before.app_users) + 1
                  /\ AccountsOf(after, u) = {last.ret.value[1]}
                  /\ UsersOf(after, u) = {last.ret.value[2]}
            /\ (AccountsOf(before, u) /= {} /\ UsersOf(before, u) /= {}) =>
                  /\ last.ret.raised = None
                  /\ after = before
                  /\ AccountsOf(before, u) = {last.ret.value[1]}
                  /\ UsersOf(before, u) = {last.ret.value[2]}
            /\ Cardinality(AccountsOf(after, u)) <= 1
            /\ Cardinality(UsersOf(after, u)) <= 1

\* C23: in a translation_parser batch a file that is rejected or fails (bad
\* name or extension, XML parse error, missing sura or aya element) leaves
\* the committed database as it was when the file's iteration began: no
\* account, user, translation or translations_text row created while
\* processing that file is committed.  (last is the create_user call of the
\* file in progress once its name has passed the checks of lines 150-157;
\* last.before is the database that call found.)
FailedFileLeavesNoRow ==
    (entry = "translation_parser" /\ pc \in {"raised", "exit_err"} /\ fidx < Len(dir)) =>
        LET metadata == tp_translation_metadata(Path(dir[fidx + 1].name))
            reached_create_user ==
                metadata.raised = None /\ metadata.value.type = <<"xml">>
        IN  IF reached_create_user
            THEN last.fn = "translation_parser" => committed = last.before
            ELSE committed = tables

\* ---- the row-tuple path and the object-model path (SpecParse)

\* the sura elements carry the indices 1..n in document order, every sura
\* starts with an aya of index 1 and has no other aya of index 1
DeclaredInOrder(doc) ==
    \A i \in 1..Len(doc) :
        /\ doc[i].index = Decimal(i)
        /\ doc[i].ayas /= <<>>
        /\ doc[i].ayas[1].index = <<1>>
        /\ \A j \in 2..Len(doc[i].ayas) : int(doc[i].ayas[j].index) /= 1

\* the Ayah objects of the parsed surahs in order, each with the number of
\* its Surah
RECURSIVE ObjectAyahs(_)
ObjectAyahs(surahs) ==
    IF surahs = <<>> THEN <<>>
    ELSE [j \in 1..Len(Head(surahs).ayahs) |->
             [surah_number |-> Head(surahs).number, ayah |-> Head(surahs).ayahs[j]]]
         \o ObjectAyahs(Tail(surahs))

\* C21: for a source whose sura elements carry the indices 1..n in order and
\* whose aya indices start at 1 in each sura and are otherwise never 1, the
\* quran_ayahs rows give every ayah the surah number and the sajdah of its
\* Ayah object, and the quran_surahs rows give every surah the number and
\* the period of its Surah object.
RowPathAgreesWithObjectPath ==
    (ppc = "ayah_rows" /\ DeclaredInOrder(root)) =>
        LET objects == ObjectAyahs(quran)
        IN  /\ Len(ayahs_table) = Len(objects)
            /\ \A k \in 1..Len(objects) :
                  /\ ayahs_table[k][2] = objects[k].surah_number
                  /\ int(ayahs_table[k][3]) = objects[k].ayah.number
                  /\ ayahs_table[k][4] = objects[k].ayah.sajdah
            /\ Len(surahs_table) = Len(quran)
            /\ \A i \in 1..Len(quran) :
                  /\ surahs_table[i].number = quran[i].number
                  /\ surahs_table[i].period = quran[i].period

\* both paths done on a source of several suras with a sajdah verse
SajdahVerseInBothPaths ==
    /\ ppc = "ayah_rows" /\ DeclaredInOrder(root) /\ Len(root) >= 2
    /\ \E k \in 1..Len(ayahs_table) :
          ayahs_table[k][4] /= None /\ ObjectAyahs(quran)[k].ayah.sajdah /= None

\* the quran_words rows of ayah_id k, in order
WordRowsOf(k) == SelectSeq(words_table, LAMBDA row : row[2] = k)

\* C22: the ayah_id values of the quran_words rows are exactly 1..A, A the
\* number of aya elements; every aya has at least one word row; the word
\* rows of ayah_id k are, in order, the words of the k-th aya element in
\* document order, the element the k-th quran_ayahs row comes from.
WordRowsFollowAyahRows ==
    ppc = "ayah_rows" =>
        LET ayas == iter_aya(root)
            A == Len(ayas)
        IN  /\ {words_table[r][2] : r \in 1..Len(words_table)} = 1..A
            /\ \A r \in 2..Len(words_table) : words_table[r - 1][2] <= words_table[r][2]
            /\ Len(ayahs_table) = A
            /\ \A k \in 1..A :
                  /\ WordRowsOf(k) /= <<>>
                  /\ [i \in 1..Len(WordRowsOf(k)) |-> WordRowsOf(k)[i][3]]
                         = WordTexts(ObjectAyahs(quran)[k].ayah)
                  /\ ayahs_table[k][3] = ayas[k].index

\* the three tables of a source of several ayas, one of several words
SeveralAyasWithWordRows ==
    /\ ppc = "ayah_rows" /\ Len(iter_aya(root)) >= 3
    /\ \E k \in 1..Len(iter_aya(root)) : Len(WordRowsOf(k)) >= 2

\* ---- text functions, continued (SpecText)

\* C24: the output of remove_comments_from_xml holds no "<!--" ... "-->"
\* span, for every input, also one where the deletion of a comment brings a
\* "<!" and a "--" together; the function applied to its own re-encoded
\* output changes nothing.
NoCommentRemains ==
    (fn = "remove_comments_from_xml" /\ fpc = "return") =>
        /\ CommentSpans(ret, 1) = {}
        /\ remove_comments_from_xml(encode(ret)) = ret

\* C25: the apostrophe escaping is lossless: no other source verse text, one
\* holding the literal "&quot;" included, gives the stored text of this one.
EscapingLossless ==
    (fn \in {"ayah_translations_from_xml", "create_translation_table"} /\ fpc = "return") =>
        \A ps \in SeqsUpTo(QuotePieces, MaxQuotePieces) :
            Flatten(ps) /= arg =>
                str_replace(Flatten(ps), APOSTROPHE, QUOT) /= StoredText

====
